---- MODULE Spec2Model ----
(***************************************************************************)
(* Model of syft/formats/spdx22json/to_format_model.go: the conversion of  *)
(* an SBOM (packages, file coordinates, relationships) into the SPDX 2.2   *)
(* JSON document model.                                                    *)
(*                                                                         *)
(* Conventions of the model:                                               *)
(*  - Go strings that the code only compares for order (IDs, real paths,   *)
(*    package names) are natural numbers: the rank of the string in        *)
(*    lexicographic order.                                                 *)
(*  - Go strings that the code transforms (checksum algorithm names, MIME  *)
(*    types) are sequences of one-character strings, so that ToUpper and   *)
(*    Split are computed, not assumed.                                     *)
(*  - A function that writes to the log returns [out, log]: its return     *)
(*    value and the warnings it sent, in order.                            *)
(*  - to_format_model.go holds an unresolved merge (lines 44-57); `side`   *)
(*    is the side of it the build takes.                                   *)
(***************************************************************************)
EXTENDS Integers, Sequences, FiniteSets, TLC

VARIABLES
    op,        \* the entry point this run calls
    side,      \* side of the merge at lines 44-57 that is compiled
    s,         \* sbom.SBOM given to toFormatModel / toFiles / toPackages / toRelationships
    metadata,  \* *source.FileMetadata given to toFileTypes
    doc,       \* *model.Document returned by toFormatModel
    result,    \* value returned by the other entry points
    warnings,  \* what the log sink received (log.Warnf), in order
    pc         \* "start" before the call, "done" after it returned

vars == <<op, side, s, metadata, doc, result, warnings, pc>>

----------------------------------------------------------------------------
\* Bounds of the model.

\* longest relationship list given to a conversion
MaxRels == 2

----------------------------------------------------------------------------
\* Strings as character sequences.

Lower == <<"a","b","c","d","e","f","g","h","i","j","k","l","m",
           "n","o","p","q","r","s","t","u","v","w","x","y","z">>
Upper == <<"A","B","C","D","E","F","G","H","I","J","K","L","M",
           "N","O","P","Q","R","S","T","U","V","W","X","Y","Z">>

\* unicode.ToUpper on one character
ToUpperChar(c) ==
    IF \E i \in DOMAIN Lower : Lower[i] = c
    THEN Upper[CHOOSE i \in DOMAIN Lower : Lower[i] = c]
    ELSE c

\* strings.ToUpper
StringsToUpper(str) == [i \in DOMAIN str |-> ToUpperChar(str[i])]

\* strings.Split(str, "/")[0]: the text before the first "/", or all of str
SplitFirst(str) ==
    IF \E i \in DOMAIN str : str[i] = "/"
    THEN LET cut == CHOOSE i \in DOMAIN str :
                        /\ str[i] = "/"
                        /\ \A j \in 1..(i - 1) : str[j] # "/"
         IN SubSeq(str, 1, cut - 1)
    ELSE str

\* sort.SliceStable(seq, less), less[i][j] being Go's less(i, j) on the indices
\* of seq: seq[i] lands after the entries that are smaller, or equivalent and
\* earlier.
SliceStable(seq, less) ==
    LET pos(i) == 1 + Cardinality({j \in DOMAIN seq :
                                     \/ less[j][i]
                                     \/ (~less[i][j] /\ j < i)})
    IN [k \in DOMAIN seq |-> seq[CHOOSE i \in DOMAIN seq : pos(i) = k]]

\* the set of enumerations (orders without repetition) of a finite set
Enumerations(S) ==
    {f \in [1..Cardinality(S) -> S] :
        \A i, j \in 1..Cardinality(S) : f[i] = f[j] => i = j}

\* sequences over S of length at most n
RECURSIVE SeqsUpTo(_, _)
SeqsUpTo(S, n) ==
    IF n = 0 THEN {<<>>}
    ELSE LET shorter == SeqsUpTo(S, n - 1)
         IN shorter \cup {Append(q, x) : q \in {t \in shorter : Len(t) = n - 1}, x \in S}

----------------------------------------------------------------------------
\* artifact.RelationshipType values.

OwnershipByFileOverlapRelationship == "ownership-by-file-overlap"
ContainsRelationship == "contains"
DependencyOfRelationship == "dependency-of"
DescribedByRelationship == "described-by"
\* a kind outside of the vocabulary lookupRelationship knows
EvidentByRelationship == "evident-by"

\* Go's < on the kinds (strings)
RelationshipTypeRank(ty) ==
    CASE ty = ContainsRelationship -> 1
      [] ty = DependencyOfRelationship -> 2
      [] ty = DescribedByRelationship -> 3
      [] ty = EvidentByRelationship -> 4
      [] ty = OwnershipByFileOverlapRelationship -> 5

----------------------------------------------------------------------------
\* Identifiers.

\* model.ElementID(id).String(): the plain form
ElementID(id) == <<"SPDXRef-", id>>
\* model.DocElementID(id).String(): the document-qualified form
DocElementID(id) == <<"DocumentRef-", id>>

\* source.Coordinates.ID(): a digest of the fields; injective, and not
\* monotone in (RealPath, FileSystemID)
CoordinatesID(c) ==
    30 + (IF c.FileSystemID = "" THEN 2 ELSE 0) + (2 - c.RealPath)

\* artifact.Identifiable.ID() of a relationship endpoint
ID(x) == IF x.kind = "Coordinates" THEN CoordinatesID(x) ELSE x.id

----------------------------------------------------------------------------
\* Checksums and external relationships.

\* toChecksumAlgorithm
toChecksumAlgorithm(algorithm) == StringsToUpper(algorithm)

SHA1 == <<"S", "H", "A", "1">>

\* a nil error
NilError == [msg |-> "", arg |-> ""]

\* isValidExternalRelationshipDocument without its check of rel.From
isValidExternalRelationshipDocumentNoFromCheck(rel) ==
    IF rel.To.kind = "ExternalRef"
    THEN IF /\ rel.Type = DescribedByRelationship
            /\ toChecksumAlgorithm(rel.To.SpdxRef.Alg) = SHA1
         THEN [valid |-> TRUE, err |-> NilError]
         ELSE [valid |-> FALSE,
               err |-> [msg |-> "syft cannot handle an ExternalRef with relationship type: %v",
                        arg |-> DescribedByRelationship]]
    ELSE [valid |-> FALSE, err |-> NilError]

\* isValidExternalRelationshipDocument: (bool, error)
isValidExternalRelationshipDocument(rel) ==
    IF rel.From.kind = "ExternalRef"
    THEN [valid |-> FALSE,
          err |-> [msg |-> "syft cannot handle an ExternalRef in the FROM field of a relationship",
                   arg |-> ""]]
    ELSE IF rel.To.kind = "ExternalRef"
    THEN LET relationshipType == DescribedByRelationship
         IN IF /\ rel.Type = relationshipType
               /\ toChecksumAlgorithm(rel.To.SpdxRef.Alg) = SHA1
            THEN [valid |-> TRUE, err |-> NilError]
            ELSE [valid |-> FALSE,
                  err |-> [msg |-> "syft cannot handle an ExternalRef with relationship type: %v",
                           arg |-> relationshipType]]
    ELSE [valid |-> FALSE, err |-> NilError]

\* log.Warnf("dropping relationship %v: %w", rel, err)
DroppingWarning(rel, err) ==
    [format |-> "dropping relationship %v: %w", rel |-> rel, err |-> err]

\* log.Warnf("unable to convert relationship from SPDX 2.2 JSON, dropping: %+v", r)
UnableToConvertWarning(r) ==
    [format |-> "unable to convert relationship from SPDX 2.2 JSON, dropping: %+v",
     rel |-> r, err |-> NilError]

\* the loop of toExternalDocumentRefs from index i on
RECURSIVE toExternalDocumentRefsFrom(_, _, _, _)
toExternalDocumentRefsFrom(relationships, i, externalDocRefs, log) ==
    IF i > Len(relationships)
    THEN [out |-> externalDocRefs, log |-> log]
    ELSE LET rel == relationships[i]
             v == isValidExternalRelationshipDocument(rel)
         IN IF v.err # NilError
            THEN toExternalDocumentRefsFrom(relationships, i + 1, externalDocRefs,
                                            Append(log, DroppingWarning(rel, v.err)))
            ELSE IF v.valid
            THEN LET externalRef == rel.To
                     externalDocRef ==
                        [ExternalDocumentID |-> DocElementID(ID(rel.To)),
                         Checksum |-> [Algorithm |-> toChecksumAlgorithm(externalRef.SpdxRef.Alg),
                                       ChecksumValue |-> externalRef.SpdxRef.Checksum],
                         SpdxDocument |-> externalRef.SpdxRef.URI]
                 IN toExternalDocumentRefsFrom(relationships, i + 1,
                                               Append(externalDocRefs, externalDocRef), log)
            ELSE toExternalDocumentRefsFrom(relationships, i + 1, externalDocRefs, log)

\* toExternalDocumentRefs
toExternalDocumentRefs(relationships) ==
    toExternalDocumentRefsFrom(relationships, 1, <<>>, <<>>)

----------------------------------------------------------------------------
\* Relationships.

\* spdxhelpers.RelationshipType values
SpdxContains == "CONTAINS"
SpdxOther == "OTHER"
SpdxDependencyOf == "DEPENDENCY_OF"
SpdxDescribedBy == "DESCRIBED_BY"

\* lookupRelationship: (bool, spdxhelpers.RelationshipType, string)
lookupRelationship(ty) ==
    CASE ty = ContainsRelationship ->
            [exists |-> TRUE, relationshipType |-> SpdxContains, comment |-> ""]
      [] ty = OwnershipByFileOverlapRelationship ->
            [exists |-> TRUE, relationshipType |-> SpdxOther,
             comment |-> "ownership-by-file-overlap: indicates that the parent package claims ownership of a child package since the parent metadata indicates overlap with a location that a cataloger found the child package by"]
      [] ty = DependencyOfRelationship ->
            [exists |-> TRUE, relationshipType |-> SpdxDependencyOf, comment |-> ""]
      [] ty = DescribedByRelationship ->
            [exists |-> TRUE, relationshipType |-> SpdxDescribedBy, comment |-> ""]
      [] OTHER ->
            [exists |-> FALSE, relationshipType |-> "", comment |-> ""]

\* the loop of toRelationships from index i on
RECURSIVE toRelationshipsFrom(_, _, _, _)
toRelationshipsFrom(relationships, i, res, log) ==
    IF i > Len(relationships)
    THEN [out |-> res, log |-> log]
    ELSE LET r == relationships[i]
             l == lookupRelationship(r.Type)
         IN IF ~l.exists
            THEN toRelationshipsFrom(relationships, i + 1, res,
                                     Append(log, UnableToConvertWarning(r)))
            ELSE LET rel == [SpdxElementID |-> ElementID(ID(r.From)),
                             RelationshipType |-> l.relationshipType,
                             Comment |-> l.comment,
                             RelatedSpdxElement |-> <<>>]
                     v == isValidExternalRelationshipDocument(r)
                 IN IF v.err # NilError
                    THEN toRelationshipsFrom(relationships, i + 1, res,
                                             Append(log, DroppingWarning(rel, v.err)))
                    ELSE toRelationshipsFrom(
                            relationships, i + 1,
                            Append(res,
                                   [rel EXCEPT !.RelatedSpdxElement =
                                        IF v.valid THEN DocElementID(ID(r.To))
                                                   ELSE ElementID(ID(r.To))]),
                            log)

\* toRelationships that returns at the first relationship it drops
RECURSIVE toRelationshipsStopAtDrop(_, _, _, _)
toRelationshipsStopAtDrop(relationships, i, res, log) ==
    IF i > Len(relationships)
    THEN [out |-> res, log |-> log]
    ELSE LET one == toRelationshipsFrom(<<relationships[i]>>, 1, <<>>, <<>>)
         IN IF one.out = <<>>
            THEN [out |-> res, log |-> log \o one.log]
            ELSE toRelationshipsStopAtDrop(relationships, i + 1, res \o one.out, log)

toRelationshipsBreak(relationships) ==
    toRelationshipsStopAtDrop(relationships, 1, <<>>, <<>>)

\* toRelationships
toRelationships(relationships) ==
    toRelationshipsFrom(relationships, 1, <<>>, <<>>)

----------------------------------------------------------------------------
\* Packages.

\* the loop of fileIDsForPackage from index i on
RECURSIVE fileIDsForPackageFrom(_, _, _, _)
fileIDsForPackageFrom(packageSpdxID, relationships, i, fileIDs) ==
    IF i > Len(relationships)
    THEN fileIDs
    ELSE LET relationship == relationships[i]
         IN IF relationship.Type # ContainsRelationship
            THEN fileIDsForPackageFrom(packageSpdxID, relationships, i + 1, fileIDs)
            ELSE IF relationship.From.kind # "Package"
            THEN fileIDsForPackageFrom(packageSpdxID, relationships, i + 1, fileIDs)
            ELSE IF relationship.To.kind # "Coordinates"
            THEN fileIDsForPackageFrom(packageSpdxID, relationships, i + 1, fileIDs)
            ELSE IF ElementID(ID(relationship.From)) = packageSpdxID
            THEN fileIDsForPackageFrom(packageSpdxID, relationships, i + 1,
                                       Append(fileIDs, ElementID(ID(relationship.To))))
            ELSE fileIDsForPackageFrom(packageSpdxID, relationships, i + 1, fileIDs)

\* fileIDsForPackage
fileIDsForPackage(packageSpdxID, relationships) ==
    fileIDsForPackageFrom(packageSpdxID, relationships, 1, <<>>)

\* pkg.Catalog.Sorted(): the catalog's packages by name, ties broken by ID
CatalogSorted(catalog) ==
    SliceStable(catalog,
                [i \in DOMAIN catalog |-> [j \in DOMAIN catalog |->
                    IF catalog[i].Name = catalog[j].Name
                    THEN catalog[i].id < catalog[j].id
                    ELSE catalog[i].Name < catalog[j].Name]])

\* the model.Package toPackages builds for p (the fields this file computes;
\* the spdxhelpers projections of p are left out)
toPackage(p, relationships) ==
    LET packageSpdxID == ElementID(ID(p))
        hasDigests == p.MetadataType = "JavaMetadata" /\ Len(p.ArchiveDigests) > 0
    IN [SPDXID |-> packageSpdxID,
        Name |-> p.Name,
        VersionInfo |-> p.Version,
        FilesAnalyzed |-> hasDigests,
        Checksums |-> IF hasDigests
                      THEN [k \in DOMAIN p.ArchiveDigests |->
                                [Algorithm |-> StringsToUpper(p.ArchiveDigests[k].Algorithm),
                                 ChecksumValue |-> p.ArchiveDigests[k].Value]]
                      ELSE <<>>,
        HasFiles |-> fileIDsForPackage(packageSpdxID, relationships)]

\* toPackages
toPackages(catalog, relationships) ==
    LET sorted == CatalogSorted(catalog)
    IN [k \in DOMAIN sorted |-> toPackage(sorted[k], relationships)]

----------------------------------------------------------------------------
\* Files.

\* a nil *source.FileMetadata
NilMetadata == [nil |-> TRUE]

\* MIME types
ImagePng == <<"i","m","a","g","e","/","p","n","g">>
VideoMp4 == <<"v","i","d","e","o","/","m","p","4">>
TextPlain == <<"t","e","x","t","/","p","l","a","i","n">>
AudioOgg == <<"a","u","d","i","o","/","o","g","g">>
ApplicationJson == <<"a","p","p","l","i","c","a","t","i","o","n","/","j","s","o","n">>
ApplicationXElf == <<"a","p","p","l","i","c","a","t","i","o","n","/","x","-","e","l","f">>
ApplicationZip == <<"a","p","p","l","i","c","a","t","i","o","n","/","z","i","p">>
FontWoff == <<"f","o","n","t","/","w","o","f","f">>
\* a MIME type of another case: the switch compares the prefix as it is
UpperImagePng == <<"I","M","A","G","E","/","p","n","g">>
EmptyMime == <<>>

\* internal.IsExecutable: membership in the executable MIME types
IsExecutable(mimeType) == mimeType \in {ApplicationXElf}

\* internal.IsArchive: membership in the archive MIME types
IsArchive(mimeType) == mimeType \in {ApplicationZip}

\* toFileTypes without the fallback of lines 268-270
toFileTypesNoFallback(md) ==
    IF md = NilMetadata
    THEN <<>>
    ELSE LET mimeTypePrefix == SplitFirst(md.MIMEType)
             ty1 == CASE mimeTypePrefix = <<"i","m","a","g","e">> -> <<"IMAGE">>
                      [] mimeTypePrefix = <<"v","i","d","e","o">> -> <<"VIDEO">>
                      [] mimeTypePrefix = <<"a","p","p","l","i","c","a","t","i","o","n">> ->
                            <<"APPLICATION">>
                      [] mimeTypePrefix = <<"t","e","x","t">> -> <<"TEXT">>
                      [] mimeTypePrefix = <<"a","u","d","i","o">> -> <<"AUDIO">>
                      [] OTHER -> <<>>
             ty2 == IF IsExecutable(md.MIMEType) THEN Append(ty1, "BINARY") ELSE ty1
         IN IF IsArchive(md.MIMEType) THEN Append(ty2, "ARCHIVE") ELSE ty2

\* toFileTypes
toFileTypes(md) ==
    IF md = NilMetadata
    THEN <<>>
    ELSE LET mimeTypePrefix == SplitFirst(md.MIMEType)
             ty1 == CASE mimeTypePrefix = <<"i","m","a","g","e">> -> <<"IMAGE">>
                      [] mimeTypePrefix = <<"v","i","d","e","o">> -> <<"VIDEO">>
                      [] mimeTypePrefix = <<"a","p","p","l","i","c","a","t","i","o","n">> ->
                            <<"APPLICATION">>
                      [] mimeTypePrefix = <<"t","e","x","t">> -> <<"TEXT">>
                      [] mimeTypePrefix = <<"a","u","d","i","o">> -> <<"AUDIO">>
                      [] OTHER -> <<>>
             ty2 == IF IsExecutable(md.MIMEType) THEN Append(ty1, "BINARY") ELSE ty1
             ty3 == IF IsArchive(md.MIMEType) THEN Append(ty2, "ARCHIVE") ELSE ty2
         IN IF Len(ty3) = 0 THEN Append(ty3, "OTHER") ELSE ty3

\* toFileChecksums
toFileChecksums(digests) ==
    [k \in DOMAIN digests |->
        [Algorithm |-> toChecksumAlgorithm(digests[k].Algorithm),
         ChecksumValue |-> digests[k].Value]]

\* the coordinates of a relationship's endpoints (sbom.extractCoordinates)
extractCoordinates(relationship) ==
    {x \in {relationship.From, relationship.To} : x.kind = "Coordinates"}

\* SBOM.AllCoordinates() as a set: every coordinate the SBOM refers to
AllCoordinates(s0) ==
    (DOMAIN s0.FileMetadata) \cup (DOMAIN s0.FileDigests)
        \cup UNION {extractCoordinates(s0.Relationships[i]) : i \in DOMAIN s0.Relationships}

\* the model.File toFiles builds for one coordinate (the loop body)
toFile(s0, coordinates) ==
    LET md == IF coordinates \in DOMAIN s0.FileMetadata
              THEN s0.FileMetadata[coordinates] ELSE NilMetadata
        digests == IF coordinates \in DOMAIN s0.FileDigests
                   THEN s0.FileDigests[coordinates] ELSE <<>>
        comment == IF coordinates.FileSystemID # ""
                   THEN <<"layerID: ", coordinates.FileSystemID>> ELSE <<>>
    IN [SPDXID |-> ElementID(ID(coordinates)),
        Comment |-> comment,
        LicenseConcluded |-> "NOASSERTION",
        Checksums |-> toFileChecksums(digests),
        FileName |-> coordinates.RealPath,
        FileTypes |-> toFileTypes(md)]

\* toFiles whose sort compares the file names only
toFilesByNameOnly(s0, allCoordinates) ==
    LET results == [k \in DOMAIN allCoordinates |-> toFile(s0, allCoordinates[k])]
    IN SliceStable(results,
                   [i \in DOMAIN results |-> [j \in DOMAIN results |->
                       results[i].FileName < results[j].FileName]])

\* toFiles; allCoordinates is the slice s.AllCoordinates() returned
toFiles(s0, allCoordinates) ==
    LET results == [k \in DOMAIN allCoordinates |-> toFile(s0, allCoordinates[k])]
    IN SliceStable(results,
                   [i \in DOMAIN results |-> [j \in DOMAIN results |->
                       IF results[i].FileName = results[j].FileName
                       THEN results[i].SPDXID[2] < results[j].SPDXID[2]
                       ELSE results[i].FileName < results[j].FileName]])

----------------------------------------------------------------------------
\* The document.

\* SBOM.RelationshipsSorted(): a sorted copy of s.Relationships, by the ID of
\* from, then the ID of to, then the kind
RelationshipsSorted(s0) ==
    LET r == s0.Relationships
    IN SliceStable(r,
                   [i \in DOMAIN r |-> [j \in DOMAIN r |->
                       IF ID(r[i].From) = ID(r[j].From)
                       THEN IF ID(r[i].To) = ID(r[j].To)
                            THEN RelationshipTypeRank(r[i].Type) < RelationshipTypeRank(r[j].Type)
                            ELSE ID(r[i].To) < ID(r[j].To)
                       ELSE ID(r[i].From) < ID(r[j].From)]])

\* the two sides of the merge left in toFormatModel
Sides == {"HEAD", "c2005fa"}

\* toFormatModel as the side of the merge sd builds it; allCoordinates is the
\* slice s.AllCoordinates() returns inside toFiles. The header (name, namespace,
\* creation info) does not depend on the rest and is left out.
toFormatModel(s0, sd, allCoordinates) ==
    LET relationships == RelationshipsSorted(s0)
    IN IF sd = "HEAD"
       THEN LET refs == toExternalDocumentRefs(s0.Relationships)
                rels == toRelationships(s0.Relationships)
            IN [out |-> [SPDXID |-> ElementID("DOCUMENT"),
                         DataLicense |-> "CC0-1.0",
                         ExternalDocumentRefs |-> refs.out,
                         Packages |-> toPackages(s0.Catalog, s0.Relationships),
                         Files |-> toFiles(s0, allCoordinates),
                         Relationships |-> rels.out],
                log |-> refs.log \o rels.log]
       ELSE LET rels == toRelationships(relationships)
            IN [out |-> [SPDXID |-> ElementID("DOCUMENT"),
                         DataLicense |-> "CC0-1.0",
                         ExternalDocumentRefs |-> <<>>,
                         Packages |-> toPackages(s0.Catalog, relationships),
                         Files |-> toFiles(s0, allCoordinates),
                         Relationships |-> rels.out],
                log |-> rels.log]

----------------------------------------------------------------------------
\* Inputs.

pkgA == [kind |-> "Package", id |-> 12, Name |-> 1, Version |-> "1.0",
         MetadataType |-> "", ArchiveDigests |-> <<>>]
pkgB == [kind |-> "Package", id |-> 11, Name |-> 1, Version |-> "2.0",
         MetadataType |-> "", ArchiveDigests |-> <<>>]
pkgC == [kind |-> "Package", id |-> 10, Name |-> 2, Version |-> "3.0",
         MetadataType |-> "JavaMetadata",
         ArchiveDigests |-> <<[Algorithm |-> <<"s","h","a","1">>, Value |-> "d1"]>>]

coordA == [kind |-> "Coordinates", RealPath |-> 1, FileSystemID |-> ""]
coordB == [kind |-> "Coordinates", RealPath |-> 1, FileSystemID |-> "layer1"]
coordC == [kind |-> "Coordinates", RealPath |-> 2, FileSystemID |-> ""]

extSha1 == [kind |-> "ExternalRef", id |-> 20,
            SpdxRef |-> [Alg |-> <<"s","h","a","1">>, Checksum |-> "c20", URI |-> "uri20"]]
extMixed == [kind |-> "ExternalRef", id |-> 21,
             SpdxRef |-> [Alg |-> <<"S","h","a","1">>, Checksum |-> "c21", URI |-> "uri21"]]
ext256 == [kind |-> "ExternalRef", id |-> 22,
           SpdxRef |-> [Alg |-> <<"s","h","a","2","5","6">>, Checksum |-> "c22", URI |-> "uri22"]]

Rel(from, ty, to) == [From |-> from, To |-> to, Type |-> ty]

\* relationships between packages and files
InternalRels ==
    { Rel(pkgA, ContainsRelationship, coordA),
      Rel(pkgA, ContainsRelationship, coordB),
      Rel(pkgB, ContainsRelationship, coordA),
      Rel(pkgA, ContainsRelationship, pkgB),
      Rel(coordA, ContainsRelationship, coordB),
      Rel(pkgB, DependencyOfRelationship, pkgA),
      Rel(pkgA, OwnershipByFileOverlapRelationship, pkgB),
      Rel(pkgA, EvidentByRelationship, coordC) }

\* relationships with an external reference at one end or both
ExternalRels ==
    { Rel(pkgA, DescribedByRelationship, extSha1),
      Rel(pkgB, DescribedByRelationship, extMixed),
      Rel(pkgA, DescribedByRelationship, ext256),
      Rel(pkgA, ContainsRelationship, extSha1),
      Rel(extSha1, DescribedByRelationship, pkgA),
      Rel(extSha1, DescribedByRelationship, extMixed),
      Rel(extSha1, EvidentByRelationship, pkgA) }

RelUniverse == InternalRels \cup ExternalRels

MimeUniverse == {ImagePng, VideoMp4, TextPlain, AudioOgg, ApplicationJson,
                 ApplicationXElf, ApplicationZip, FontWoff, UpperImagePng, EmptyMime}

Metadata(mimeType) == [MIMEType |-> mimeType]

Digest(alg, value) == [Algorithm |-> alg, Value |-> value]

EmptySBOM == [Relationships |-> <<>>, Catalog |-> <<>>,
              FileMetadata |-> <<>>, FileDigests |-> <<>>]

\* maps from a subset of D to R
PartialMaps(D, R) == UNION {[X -> R] : X \in SUBSET D}

\* the SBOMs given to toFormatModel
FormatModelInputs ==
    {[Relationships |-> r, Catalog |-> c,
      FileMetadata |-> (coordA :> Metadata(ImagePng)) @@ (coordC :> Metadata(FontWoff)),
      FileDigests |-> (coordA :> <<Digest(<<"s","h","a","2","5","6">>, "f1")>>)] :
        r \in SeqsUpTo(RelUniverse, MaxRels), c \in Enumerations({pkgA, pkgB})}

\* the SBOMs given to toRelationships
RelationshipsInputs ==
    {[EmptySBOM EXCEPT !.Relationships = r] : r \in SeqsUpTo(RelUniverse, MaxRels)}

\* the SBOMs given to toPackages
PackagesInputs ==
    {[EmptySBOM EXCEPT !.Relationships = r, !.Catalog = c] :
        r \in SeqsUpTo({x \in InternalRels : x.Type = ContainsRelationship}, MaxRels),
        c \in UNION {Enumerations(P) : P \in SUBSET {pkgA, pkgB, pkgC}}}

\* the SBOMs given to toFiles
FilesInputs ==
    {[EmptySBOM EXCEPT !.Relationships = r, !.FileMetadata = m, !.FileDigests = d] :
        r \in {<<>>, <<Rel(pkgA, ContainsRelationship, coordB)>>},
        m \in PartialMaps({coordA, coordB, coordC}, {Metadata(ImagePng), Metadata(EmptyMime)}),
        d \in {<<>>, (coordB :> <<Digest(<<"m","d","5">>, "f2")>>)}}

\* the arguments given to toFileTypes
FileTypesInputs == {NilMetadata} \cup {Metadata(m) : m \in MimeUniverse}

----------------------------------------------------------------------------
\* The state machine: one call of one entry point.

Nil == [nil |-> TRUE]

Ops == {"toFormatModel", "toRelationships", "toPackages", "toFiles", "toFileTypes"}

Init ==
    /\ op \in Ops
    /\ side \in Sides
    /\ s \in CASE op = "toFormatModel" -> FormatModelInputs
               [] op = "toRelationships" -> RelationshipsInputs
               [] op = "toPackages" -> PackagesInputs
               [] op = "toFiles" -> FilesInputs
               [] OTHER -> {EmptySBOM}
    /\ metadata \in IF op = "toFileTypes" THEN FileTypesInputs ELSE {NilMetadata}
    /\ doc = Nil
    /\ result = Nil
    /\ warnings = <<>>
    /\ pc = "start"

\* toFormatModel(s)
ToFormatModel ==
    /\ pc = "start" /\ op = "toFormatModel"
    /\ \E allCoordinates \in Enumerations(AllCoordinates(s)) :
          LET r == toFormatModel(s, side, allCoordinates)
          IN /\ doc' = r.out
             /\ warnings' = warnings \o r.log
    /\ pc' = "done"
    /\ UNCHANGED <<op, side, s, metadata, result>>

\* toRelationships(s.Relationships)
ToRelationships ==
    /\ pc = "start" /\ op = "toRelationships"
    /\ LET r == toRelationships(s.Relationships)
       IN /\ result' = r.out
          /\ warnings' = warnings \o r.log
    /\ pc' = "done"
    /\ UNCHANGED <<op, side, s, metadata, doc>>

\* toPackages(s.Artifacts.PackageCatalog, s.Relationships)
ToPackages ==
    /\ pc = "start" /\ op = "toPackages"
    /\ result' = toPackages(s.Catalog, s.Relationships)
    /\ pc' = "done"
    /\ UNCHANGED <<op, side, s, metadata, doc, warnings>>

\* toFiles(s)
ToFiles ==
    /\ pc = "start" /\ op = "toFiles"
    /\ \E allCoordinates \in Enumerations(AllCoordinates(s)) :
          result' = toFiles(s, allCoordinates)
    /\ pc' = "done"
    /\ UNCHANGED <<op, side, s, metadata, doc, warnings>>

\* toFileTypes(metadata)
ToFileTypes ==
    /\ pc = "start" /\ op = "toFileTypes"
    /\ result' = toFileTypes(metadata)
    /\ pc' = "done"
    /\ UNCHANGED <<op, side, s, metadata, doc, warnings>>

Next ==
    \/ ToFormatModel
    \/ ToRelationships
    \/ ToPackages
    \/ ToFiles
    \/ ToFileTypes

Spec == Init /\ [][Next]_vars

----------------------------------------------------------------------------
\* Vocabulary of the properties, stated apart from the code above.

Done(o) == pc = "done" /\ op = o

IsExternal(x) == x.kind = "ExternalRef"

SupportedKinds == {ContainsRelationship, OwnershipByFileOverlapRelationship,
                   DependencyOfRelationship, DescribedByRelationship}

\* alg is "sha1" in some mix of cases
IsSha1(alg) ==
    /\ Len(alg) = 4
    /\ alg[1] \in {"s", "S"}
    /\ alg[2] \in {"h", "H"}
    /\ alg[3] \in {"a", "A"}
    /\ alg[4] = "1"

\* `to` is an external reference in the one admissible combination
ValidExternalTo(r) ==
    /\ IsExternal(r.To)
    /\ r.Type = DescribedByRelationship
    /\ IsSha1(r.To.SpdxRef.Alg)

\* `to` is an external reference in an inadmissible combination
InvalidExternalTo(r) == IsExternal(r.To) /\ ~ValidExternalTo(r)

\* a malformed external reference: at `from`, or inadmissible at `to`
MalformedExternal(r) == IsExternal(r.From) \/ InvalidExternalTo(r)

\* the relationship record uses the document-qualified related-element form
IsDocQualified(rec) == rec.RelatedSpdxElement[1] = "DocumentRef-"

\* the output kind the format gives an input kind
SpdxKind(ty) ==
    CASE ty = ContainsRelationship -> "CONTAINS"
      [] ty = OwnershipByFileOverlapRelationship -> "OTHER"
      [] ty = DependencyOfRelationship -> "DEPENDENCY_OF"
      [] ty = DescribedByRelationship -> "DESCRIBED_BY"
      [] OTHER -> "?"

\* (from, kind, to) of the input relationships and of the output records
InputEdges(rels) ==
    [k \in DOMAIN rels |-> <<ID(rels[k].From), SpdxKind(rels[k].Type), ID(rels[k].To)>>]
OutputEdges(recs) ==
    [k \in DOMAIN recs |->
        <<recs[k].SpdxElementID[2], recs[k].RelationshipType, recs[k].RelatedSpdxElement[2]>>]

UnsupportedKind(r) == r.Type \notin SupportedKinds
SupportedKind(r) == r.Type \in SupportedKinds
Kept(r) == SupportedKind(r) /\ ~MalformedExternal(r)
Dropped(r) == ~Kept(r)
IsUnableToConvert(w) ==
    w.format = "unable to convert relationship from SPDX 2.2 JSON, dropping: %+v"

----------------------------------------------------------------------------
\* C1: toFormatModel derives ExternalDocumentRefs, every package's HasFiles
\* and Relationships from the one sorted sequence s.RelationshipsSorted(),
\* never from s.Relationships as stored.
C1_ProjectionsFromSortedSequence ==
    Done("toFormatModel") =>
        LET sorted == RelationshipsSorted(s)
        IN /\ doc.ExternalDocumentRefs = toExternalDocumentRefs(sorted).out
           /\ doc.Relationships = toRelationships(sorted).out
           /\ \A k \in DOMAIN doc.Packages :
                 doc.Packages[k].HasFiles = fileIDsForPackage(doc.Packages[k].SPDXID, sorted)

----------------------------------------------------------------------------
\* C2 as stated: toRelationships drops exactly the relationships of an
\* unsupported kind, with one warning each, and every other relationship
\* stays, in its original relative order.
C2_OnlyUnsupportedKindsDropped ==
    Done("toRelationships") =>
        /\ OutputEdges(result) = InputEdges(SelectSeq(s.Relationships, SupportedKind))
        /\ Len(SelectSeq(warnings, IsUnableToConvert)) = Len(SelectSeq(s.Relationships, UnsupportedKind))

\* C2 as amended: toRelationships drops every relationship of an unsupported
\* kind, with one unable-to-convert warning for it, and every other
\* relationship that has no malformed external reference (external `from`,
\* or external `to` in an inadmissible combination) stays, in its original
\* relative order; a drop never stops the processing of later entries.
C2_UnsupportedDroppedRestKeptInOrder ==
    Done("toRelationships") =>
        /\ OutputEdges(result) = InputEdges(SelectSeq(s.Relationships, Kept))
        /\ SelectSeq(warnings, IsUnableToConvert)
              = [k \in DOMAIN SelectSeq(s.Relationships, UnsupportedKind) |->
                    UnableToConvertWarning(SelectSeq(s.Relationships, UnsupportedKind)[k])]
        /\ Len(warnings) = Len(SelectSeq(s.Relationships, Dropped))

\* C2 witness: a relationship of an unsupported kind was dropped and the
\* supported one after it was still converted.
C2_Witness ==
    /\ Done("toRelationships")
    /\ Len(s.Relationships) = 2
    /\ UnsupportedKind(s.Relationships[1])
    /\ Kept(s.Relationships[2])
    /\ Len(result) = 1
    /\ Len(warnings) = 1

----------------------------------------------------------------------------
\* C3: the relationships with an external `to` that are described-by with a
\* (case-insensitive) sha1 checksum yield one ExternalDocumentRefs entry and
\* one document-qualified relationship record each, and the other
\* relationships with an external `to` yield neither.
C3_ValidExternalYieldsOneOfEach ==
    Done("toFormatModel") =>
        /\ Len(doc.ExternalDocumentRefs) = Len(SelectSeq(s.Relationships, ValidExternalTo))
        /\ Len(SelectSeq(doc.Relationships, IsDocQualified)) = Len(SelectSeq(s.Relationships, ValidExternalTo))

----------------------------------------------------------------------------
\* C4: a relationship whose `from` is an external reference is always
\* dropped, whatever its kind and its `to`: no relationship record has an
\* external reference as its source element, the relationship records come
\* only from relationships with another `from`, and so do the
\* ExternalDocumentRefs entries.
C4_FromExternalAlwaysDropped ==
    /\ Done("toFormatModel") =>
          LET NotFromExternal(r) == ~IsExternal(r.From)
              ToExternalOnly(r) == ~IsExternal(r.From) /\ IsExternal(r.To)
          IN /\ \A k \in DOMAIN doc.Relationships :
                    doc.Relationships[k].SpdxElementID \notin
                        {ElementID(ID(e)) : e \in {extSha1, extMixed, ext256}}
             /\ Len(doc.Relationships) <= Len(SelectSeq(s.Relationships, NotFromExternal))
             /\ Len(doc.ExternalDocumentRefs) <= Len(SelectSeq(s.Relationships, ToExternalOnly))
    /\ Done("toRelationships") =>
          LET NotFromExternal(r) == ~IsExternal(r.From)
          IN /\ \A k \in DOMAIN result :
                    result[k].SpdxElementID \notin
                        {ElementID(ID(e)) : e \in {extSha1, extMixed, ext256}}
             /\ Len(result) <= Len(SelectSeq(s.Relationships, NotFromExternal))

\* C4 witness: a conversion met a described-by relationship from an external
\* reference to another, admissible, one (dropped) and one it kept.
C4_Witness ==
    /\ Done("toFormatModel")
    /\ Len(s.Relationships) = 2
    /\ s.Relationships[1] = Rel(extSha1, DescribedByRelationship, extMixed)
    /\ Kept(s.Relationships[2])
    /\ Len(doc.Relationships) = 1

----------------------------------------------------------------------------
\* C5: in one conversion every dropped relationship sends exactly one
\* warning to the log, and a kept one sends none: the log holds as many
\* warnings as relationships were dropped.
C5_OneWarningPerDrop ==
    Done("toFormatModel") =>
        Len(warnings) = Len(s.Relationships) - Len(doc.Relationships)

----------------------------------------------------------------------------
\* C6: every package's HasFiles is the file identifiers of the contains
\* relationships from that package to a file coordinate, in the order of the
\* sorted relationship sequence, duplicates kept.
C6_HasFilesInSortedOrder ==
    Done("toFormatModel") =>
        \A k \in DOMAIN doc.Packages :
            LET Mine(r) == /\ r.Type = ContainsRelationship
                           /\ r.From.kind = "Package"
                           /\ ElementID(ID(r.From)) = doc.Packages[k].SPDXID
                           /\ r.To.kind = "Coordinates"
                mine == SelectSeq(RelationshipsSorted(s), Mine)
            IN doc.Packages[k].HasFiles = [i \in DOMAIN mine |-> ElementID(ID(mine[i].To))]

----------------------------------------------------------------------------
\* C7: the file list has one record per distinct coordinate and ascends
\* strictly by (file name, file identifier), whatever order the coordinates
\* were enumerated in; the package list has one record per package of the
\* catalog, in the order of catalog.Sorted(), which ascends strictly by
\* (name, identifier) whatever order the catalog enumerates in.
FilesCanonical(files) ==
    /\ Len(files) = Cardinality(AllCoordinates(s))
    /\ {<<files[k].SPDXID, files[k].FileName>> : k \in DOMAIN files}
          = {<<ElementID(ID(c)), c.RealPath>> : c \in AllCoordinates(s)}
    /\ \A k \in 1..(Len(files) - 1) :
          \/ files[k].FileName < files[k + 1].FileName
          \/ /\ files[k].FileName = files[k + 1].FileName
             /\ files[k].SPDXID[2] < files[k + 1].SPDXID[2]

PackagesCanonical(packages) ==
    /\ Len(packages) = Len(s.Catalog)
    /\ {packages[k].SPDXID : k \in DOMAIN packages}
          = {ElementID(ID(s.Catalog[k])) : k \in DOMAIN s.Catalog}
    /\ \A k \in 1..(Len(packages) - 1) :
          \/ packages[k].Name < packages[k + 1].Name
          \/ /\ packages[k].Name = packages[k + 1].Name
             /\ packages[k].SPDXID[2] < packages[k + 1].SPDXID[2]

C7_FileAndPackageListsCanonical ==
    /\ Done("toFiles") => FilesCanonical(result)
    /\ Done("toPackages") => PackagesCanonical(result)
    /\ Done("toFormatModel") => FilesCanonical(doc.Files) /\ PackagesCanonical(doc.Packages)

\* C7 witness: toFiles returned three files, two of them under one real path
\* in different layers.
C7_Witness ==
    /\ Done("toFiles")
    /\ Len(result) = 3
    /\ result[1].FileName = result[2].FileName
    /\ result[1].Comment # result[2].Comment

----------------------------------------------------------------------------
\* C8: toFileTypes returns the empty list exactly when there is no metadata;
\* with metadata the list is the primary tag of the MIME top-level category
\* (if it is one of the five), then BINARY if the type is executable, then
\* ARCHIVE if it is an archive, and the single tag OTHER exactly when none of
\* these applies.
PrimaryTag(mimeType) ==
    CASE mimeType = ImagePng -> <<"IMAGE">>
      [] mimeType = VideoMp4 -> <<"VIDEO">>
      [] mimeType = TextPlain -> <<"TEXT">>
      [] mimeType = AudioOgg -> <<"AUDIO">>
      [] mimeType \in {ApplicationJson, ApplicationXElf, ApplicationZip} -> <<"APPLICATION">>
      [] OTHER -> <<>>

C8_FileTypes ==
    Done("toFileTypes") =>
        /\ (result = <<>>) <=> (metadata = NilMetadata)
        /\ metadata # NilMetadata =>
              LET tags == PrimaryTag(metadata.MIMEType)
                            \o (IF metadata.MIMEType = ApplicationXElf THEN <<"BINARY">> ELSE <<>>)
                            \o (IF metadata.MIMEType = ApplicationZip THEN <<"ARCHIVE">> ELSE <<>>)
              IN /\ tags # <<>> => result = tags
                 /\ (tags = <<>>) <=> (result = <<"OTHER">>)
                 /\ (\E k \in DOMAIN result : result[k] = "OTHER") => Len(result) = 1
        /\ metadata = Metadata(ImagePng) => result = <<"IMAGE">>

\* C8 witness: metadata with a MIME type of no known category, not executable
\* and not an archive, got the fallback tag.
C8_Witness ==
    /\ Done("toFileTypes")
    /\ metadata = Metadata(FontWoff)
    /\ result = <<"OTHER">>

----------------------------------------------------------------------------
\* C9: the warning for a relationship dropped for an external `to` in an
\* inadmissible combination cites the kind of that relationship.
C9_WarningCitesOffendingKind ==
    Done("toRelationships") =>
        LET dropped == SelectSeq(s.Relationships, Dropped)
        IN \A k \in DOMAIN warnings :
              (k \in DOMAIN dropped /\ SupportedKind(dropped[k])
                  /\ ~IsExternal(dropped[k].From) /\ InvalidExternalTo(dropped[k]))
                  => warnings[k].err.arg = dropped[k].Type

----------------------------------------------------------------------------
\* C10: the ExternalDocumentRefs entries and the document-qualified
\* relationship records of a document correspond one to one, in order.
C10_ExternalRefsMatchQualifiedRecords ==
    Done("toFormatModel") =>
        LET qualified == SelectSeq(doc.Relationships, IsDocQualified)
        IN /\ Len(qualified) = Len(doc.ExternalDocumentRefs)
           /\ \A k \in DOMAIN qualified :
                 k \in DOMAIN doc.ExternalDocumentRefs
                    => qualified[k].RelatedSpdxElement
                          = doc.ExternalDocumentRefs[k].ExternalDocumentID

====
